---- MODULE Spec2Model ----
(***************************************************************************)
(* Sale-transaction processing of the pharmacy backend: the two            *)
(* sale-creation handlers (the POST / handler of routes/sale.js and        *)
(* createSale of Controllers/saleController.js), the Drug and Sale         *)
(* collections they read and write, and the Sale pre-save hook.            *)
(*                                                                         *)
(* A step of a request is one database operation together with the         *)
(* synchronous code that runs when its result arrives (up to the next      *)
(* await).  Requests interleave between steps only, as on the Node.js      *)
(* event loop.                                                             *)
(***************************************************************************)
EXTENDS Integers, Sequences, FiniteSets, TLC

\* ------------------------------------------------------------------ bounds
\* On-hand quantity every Drug starts with.
InitQty == 2

\* The sale-creation requests of a behaviour; they may overlap or follow one
\* another.
Reqs == {1, 2}
\* Quantities a basket line may request.
Qtys == {1, 2}
\* Basket lengths.
BasketLens == {0, 1, 2}

Undefined == "undefined"

\* ------------------------------------------------------------- collections
UserIds == {"u1"}
\* req.user as resolved by the auth middleware; the User schema has no
\* pharmacy field, so req.user.pharmacy is undefined.
OtherUserIds == {"u2"}
Users == [u \in UserIds \cup OtherUserIds |-> [_id |-> u, pharmacy |-> Undefined]]

DrugIds == {"d1", "d2"}
\* An id that resolves to no Drug document.
MissingId == "d9"
DrugRefs == DrugIds \cup {MissingId}

\* new Date(): the current time, in days.
Now == 1
Dates == {Now - 1, Now, Now + 1}
DrugPrice(d) == IF d = "d1" THEN 2 ELSE 3
\* Every Drug has a cost price (the schema requires it), below its price.
DrugCost(d) == DrugPrice(d) - 1

\* The Drug collection at the start: two active batches of pharmacy u1.
InitDrugs ==
  [d \in DrugIds |->
     [_id |-> d, name |-> d, batchNo |-> d, category |-> "c",
      quantity |-> InitQty, price |-> DrugPrice(d),
      costPrice |-> DrugCost(d), minStockLevel |-> 10, expiryDate |-> Now + 1,
      isActive |-> TRUE, pharmacy |-> "u1"]]

NoDrug == [_id |-> "none"]
NoSale == [_id |-> "none"]

\* ---------------------------------------------------------------- requests
\* Prices a client may put on a basket line; the handlers never read them.
ClientPrices == {7}

Lines == [drugId : DrugRefs, quantity : Qtys, price : ClientPrices]
Baskets == UNION {[1..n -> Lines] : n \in BasketLens}
PaymentInputs == {Undefined, "cheque"}
\* A request body; hasItems is FALSE when the body carries no items at all.
Bodies ==
  [items : Baskets, paymentMethod : PaymentInputs, hasItems : {TRUE}]
    \cup [items : {<<>>}, paymentMethod : PaymentInputs, hasItems : {FALSE}]
Handlers == {"route", "controller"}

\* Sale creations that do not overlap: at most MaxSeq, one after the other.
MaxSeq == 3
\* The sale creations that run next to the requests to the drug routes.
MaxSales == 2
\* Sale creations next to the reading routes.
MaxReadSales == 1
\* The id a new Drug document gets, by the request that constructs it.
DReqs == {1, 2}
NewId(r) == IF r = 1 THEN "n1" ELSE "n2"
SeqLines == [drugId : {"d1", "n1"}, quantity : {1}, price : ClientPrices]
SeqBodies ==
  [items : {<<l>> : l \in SeqLines}, paymentMethod : {Undefined},
   hasItems : {TRUE}]

\* Baskets with quantities that are not positive.
SignedQtys == {-1, 0, 1}
SignedLines == [drugId : {"d1"}, quantity : SignedQtys, price : ClientPrices]
SignedBodies ==
  [items : UNION {[1..n -> SignedLines] : n \in {1, 2}},
   paymentMethod : {Undefined}, hasItems : {TRUE}]

\* Requests to the drug routes.
DrugCallers == UserIds \cup OtherUserIds
BatchInputs == {" B1 ", "d1"}
CreateBodies ==
  LET base == [name : {"new"}, category : {"c"}, batchNo : BatchInputs,
               quantity : {2}, price : {3}, expiryDate : Dates]
  IN base \cup {[f \in DOMAIN b \cup {"minStockLevel"} |->
                    IF f = "minStockLevel" THEN 1 ELSE b[f]] : b \in base}
UpdateBodies ==
  [name : {"renamed"}, category : {"c"}, batchNo : {"d1", "B1"},
   quantity : {0}, price : {5}, expiryDate : {Now, Now + 1}]
DrugTargets == {"d1"}
UpdateTargets == {"d1", "d2"}
SaleTargets == {1}

\* ------------------------------------------------------------ User accounts
MaxHash == 3    \* no stored password is a hash nested deeper than this
UReqs == {1}
UserNames == {"u1", "u2"}
Passwords == {"secret", "changed"}
PharmacyNames == {"renamed"}
UserPaths == {"password", "lastLogin", "pharmacyName", "preferences"}

\* A password value: the request's plain text, hashed rounds times.
Plain(p) == [plain |-> p, rounds |-> 0]

\* bcrypt.hash: a hash of the value it is given, itself a hash or not.
Hash(pw) == [pw EXCEPT !.rounds = @ + 1]

\* bcrypt.compare: the stored value is a hash of the entered plain text.
matchPassword(entered, stored) == stored = Hash(Plain(entered))

NoUser ==
  [present |-> FALSE, password |-> Plain("none"), lastLogin |-> Now - 1,
   pharmacyName |-> "none", preferences |-> [lowStockAlerts |-> TRUE]]

\* User.create's document: the password as the request gave it.
NewUser(p) ==
  [present |-> TRUE, password |-> Plain(p), lastLogin |-> Now - 1,
   pharmacyName |-> "pharmacy", preferences |-> [lowStockAlerts |-> TRUE]]

InitUsers ==
  [u \in UserNames |->
     IF u = "u1" THEN [NewUser("secret") EXCEPT !.password = Hash(Plain("secret"))]
     ELSE NoUser]

VARIABLES
  drugs,    \* the Drug collection: id -> document
  sales,    \* the Sale collection, in insertion order
  req,      \* per request: the handler's position and local variables
  mounted,  \* the handler the server mounts at POST /api/sales
  dreq,     \* per request to the drug routes: position and local variables
  users,    \* the User collection: id -> document
  ureq      \* per request to the auth and user routes: position and document

vars == <<drugs, sales, req, mounted, dreq, users, ureq>>

IdleReq ==
  [pc |-> "idle", n |-> 0, user |-> "none",
   body |-> [items |-> <<>>, paymentMethod |-> Undefined, hasItems |-> FALSE],
   idx |-> 0, drug |-> NoDrug, saleItems |-> <<>>,
   totalAmount |-> 0, totalItems |-> 0, pending |-> {},
   sale |-> NoSale, status |-> 0, message |-> [kind |-> "none"]]

IdleDReq ==
  [pc |-> "idle", op |-> "none", user |-> "none", id |-> "none",
   body |-> [name |-> "none"], loaded |-> NoDrug, drug |-> NoDrug,
   result |-> {}, status |-> 0, message |-> [kind |-> "none"]]

IdleUReq ==
  [pc |-> "idle", op |-> "none", user |-> "none", doc |-> NoUser,
   modified |-> {}, hashed |-> FALSE, status |-> 0]

\* The response of an auth or user route is sent; hashed tells whether the
\* pre-save hook hashed the document's password on the way.
URespond(q, status) ==
  [IdleUReq EXCEPT !.pc = "done", !.op = q.op, !.user = q.user,
                   !.hashed = q.hashed, !.status = status]

\* The response of a drug route is sent.
DRespond(q, status, message) ==
  [IdleDReq EXCEPT !.pc = "done", !.op = q.op, !.user = q.user, !.id = q.id,
                   !.body = q.body, !.result = q.result,
                   !.status = status, !.message = message]

\* Mutant: every response is a server error.
Respond_ServerError(q, status, message) ==
  [IdleReq EXCEPT !.pc = "done", !.n = q.n,
                  !.user = q.user, !.body = q.body,
                  !.status = 500, !.message = message]

\* The response is sent: the handler's locals are gone, the request and its
\* response stay visible.
Respond(q, status, message) ==
  [IdleReq EXCEPT !.pc = "done", !.n = q.n,
                  !.user = q.user, !.body = q.body,
                  !.status = status, !.message = message]

\* ----------------------------------------------------------------- helpers
RECURSIVE SumSeq(_)
SumSeq(s) == IF s = <<>> THEN 0 ELSE s[1] + SumSeq(Tail(s))

\* req.user.pharmacy || req.user._id
PharmacyId(u) ==
  IF Users[u].pharmacy # Undefined THEN Users[u].pharmacy ELSE Users[u]._id

\* Drug.findById(id)
FindById(id) == IF id \in DOMAIN drugs THEN drugs[id] ELSE NoDrug

\* Mutant: the lookup does not filter on the pharmacy.
FindSellable_AnyPharmacy(id, pharmacyId) ==
  IF id \in DOMAIN drugs /\ drugs[id].isActive THEN drugs[id] ELSE NoDrug

\* Drug.findOne({_id, pharmacy, isActive: true})
FindSellable(id, pharmacyId) ==
  IF /\ id \in DOMAIN drugs
     /\ drugs[id].pharmacy = pharmacyId
     /\ drugs[id].isActive
  THEN drugs[id] ELSE NoDrug

\* Mutant: the stock check lets a request for one more than the stock pass.
InsufficientStock_OffByOne(drug, item) == drug.quantity + 1 < item.quantity

\* drug.quantity < item.quantity
InsufficientStock(drug, item) == drug.quantity < item.quantity

\* Mutant: the line item takes its price from the request body.
SaleItem_ClientPrice(drug, item) ==
  [drug |-> drug._id, drugName |-> drug.name, batchNo |-> drug.batchNo,
   category |-> drug.category, quantity |-> item.quantity,
   unitPrice |-> item.price, totalPrice |-> item.price * item.quantity]

\* The line item both handlers push: every field from the Drug document read.
SaleItem(drug, item) ==
  [drug |-> drug._id, drugName |-> drug.name, batchNo |-> drug.batchNo,
   category |-> drug.category, quantity |-> item.quantity,
   unitPrice |-> drug.price, totalPrice |-> drug.price * item.quantity]

\* A line item cast to the saleItemSchema: profit defaults to 0.
CastItem(it) ==
  [f \in DOMAIN it \cup {"profit"} |-> IF f = "profit" THEN 0 ELSE it[f]]

\* new Sale({...}): schema defaults filled in, _id assigned at construction.
\* The route handler passes no pharmacy.
NewSale(q) ==
  [_id |-> q.n,
   saleNumber |-> <<>>,
   items |-> [i \in 1..Len(q.saleItems) |-> CastItem(q.saleItems[i])],
   totalAmount |-> q.totalAmount,
   totalItems |-> q.totalItems,
   totalProfit |-> 0,
   profitMargin |-> 0,
   paymentMethod |-> IF q.body.paymentMethod # Undefined
                     THEN q.body.paymentMethod ELSE "cash",
   soldBy |-> Users[q.user]._id,
   pharmacy |-> IF mounted = "controller"
                THEN PharmacyId(q.user) ELSE Undefined,
   status |-> "completed"]

\* Schema validation of a Sale, run by save() before the pre-save hook.
ItemValid(it) ==
  /\ it.drug # Undefined
  /\ it.drugName # ""
  /\ it.batchNo # ""
  /\ it.quantity >= 1
  /\ it.unitPrice >= 0
  /\ it.totalPrice >= 0

SaleValid(s) ==
  /\ \A i \in 1..Len(s.items) : ItemValid(s.items[i])
  /\ s.totalAmount >= 0
  /\ s.totalItems >= 1
  /\ s.paymentMethod \in {"cash", "card", "mobile_money"}
  /\ s.soldBy # Undefined
  /\ s.status \in {"completed", "cancelled", "refunded"}

\* String(n): the decimal digits of n.
RECURSIVE Digits(_)
Digits(n) ==
  IF n < 10 THEN <<n>> ELSE Append(Digits(n \div 10), n % 10)

\* s.padStart(len, '0')
RECURSIVE PadStart(_, _)
PadStart(s, len) == IF Len(s) >= len THEN s ELSE PadStart(<<0>> \o s, len)

\* Mutant: the number is derived from the count, not the count plus one.
SaleNumber_FromCount(count) == <<"S", "L">> \o PadStart(Digits(count), 4)

\* `SL${String(count + 1).padStart(4, '0')}`
SaleNumber(count) == <<"S", "L">> \o PadStart(Digits(count + 1), 4)

\* items.reduce((sum, item) => sum + item.quantity, 0)
ItemsQuantity(items) == SumSeq([i \in 1..Len(items) |-> items[i].quantity])

\* Mutant: the hook sums the unit prices instead of the line totals.
ItemsTotalPrice_UnitPrices(items) ==
  SumSeq([i \in 1..Len(items) |-> items[i].unitPrice])

\* items.reduce((sum, item) => sum + item.totalPrice, 0)
ItemsTotalPrice(items) == SumSeq([i \in 1..Len(items) |-> items[i].totalPrice])

\* if (item.costPrice) : the field is present and truthy
HasCost(it) == "costPrice" \in DOMAIN it /\ it.costPrice # 0

ItemCost(it) == IF HasCost(it) THEN it.costPrice * it.quantity ELSE 0

\* item.profit = item.totalPrice - itemCost, for the items with a costPrice
WithProfit(items) ==
  [i \in 1..Len(items) |->
     IF HasCost(items[i])
     THEN [items[i] EXCEPT !.profit = items[i].totalPrice - ItemCost(items[i])]
     ELSE items[i]]

\* The Sale pre-save hook, given the result of countDocuments().  The
\* analytics fields it derives from createdAt (dayOfWeek, month, year, hour)
\* are not part of the model: time is not.
PreSave(s, count) ==
  LET number == IF s.saleNumber = <<>> THEN SaleNumber(count) ELSE s.saleNumber
      totalItems == ItemsQuantity(s.items)
      totalAmount == ItemsTotalPrice(s.items)
      totalCost == SumSeq([i \in 1..Len(s.items) |-> ItemCost(s.items[i])])
      base == [s EXCEPT !.saleNumber = number,
                        !.totalItems = totalItems,
                        !.totalAmount = totalAmount,
                        !.items = WithProfit(s.items)]
  IN IF totalCost > 0
     THEN [f \in DOMAIN base \cup {"totalCost"} |->
             CASE f = "totalCost" -> totalCost
               [] f = "totalProfit" -> totalAmount - totalCost
               [] f = "profitMargin" ->
                    ((totalAmount - totalCost) * 100) \div totalAmount
               [] OTHER -> base[f]]
     ELSE base

\* The unique index on saleNumber.
DuplicateSaleNumber(s) ==
  \E k \in 1..Len(sales) : sales[k].saleNumber = s.saleNumber

\* ----------------------------------------------------------------- actions
Init ==
  /\ drugs = InitDrugs
  /\ sales = <<>>
  /\ req = [r \in Reqs |-> IdleReq]
  /\ mounted \in Handlers
  /\ dreq = [r \in DReqs |-> IdleDReq]
  /\ users = InitUsers
  /\ ureq = [r \in UReqs |-> IdleUReq]

\* Mutant: only a missing basket is rejected, an empty one goes on.
EmptyBasket_MissingOnly(b) == ~b.hasItems

\* !items || items.length === 0
EmptyBasket(b) == ~b.hasItems \/ Len(b.items) = 0

\* The request as the handler starts on it: rejected for an empty basket, or
\* at the first Drug lookup.  (Past the check, a for-of over a missing basket
\* throws and a loop over no line goes straight to the Sale.)
Entered(q) ==
  IF EmptyBasket(q.body) THEN Respond(q, 400, [kind |-> "EmptyBasket"])
  ELSE IF ~q.body.hasItems THEN Respond(q, 500, [kind |-> "TypeError"])
  ELSE IF Len(q.body.items) = 0 THEN [q EXCEPT !.sale = NewSale(q), !.pc = "count"]
  ELSE [q EXCEPT !.pc = "find"]

\* A request arrives; an empty basket is rejected at once.
Receive(r) ==
  /\ req[r].pc = "idle"
  /\ \E u \in UserIds, b \in Bodies :
       req' = [req EXCEPT ![r] =
                 Entered([IdleReq EXCEPT !.n = r, !.user = u, !.body = b])]
  /\ UNCHANGED <<drugs, sales, mounted, users, ureq, dreq>>

\* The next line's Drug is read and checked.  createSale pushes the line
\* item and goes on; the route handler decrements its copy and saves it.
FindDrug(r) ==
  LET q == req[r]
      item == q.body.items[q.idx + 1]
      drug == IF mounted = "controller"
              THEN FindSellable(item.drugId, PharmacyId(q.user))
              ELSE FindById(item.drugId)
      last == q.idx + 1 = Len(q.body.items)
  IN
  /\ q.pc = "find"
  /\ req' = [req EXCEPT ![r] =
       IF drug = NoDrug
       THEN Respond(q, 404, [kind |-> "DrugNotFound", drugId |-> item.drugId])
       ELSE IF InsufficientStock(drug, item)
       THEN Respond(q, 400, [kind |-> "InsufficientStock", drug |-> drug.name,
                             available |-> drug.quantity,
                             requested |-> item.quantity])
       ELSE IF mounted = "controller"
       THEN LET q2 == [q EXCEPT
                         !.idx = q.idx + 1,
                         !.totalAmount = q.totalAmount + drug.price * item.quantity,
                         !.totalItems = q.totalItems + item.quantity,
                         !.saleItems = Append(q.saleItems, SaleItem(drug, item))]
            IN IF last
               THEN [q2 EXCEPT !.sale = NewSale(q2),
                               !.pending = 1..Len(q.body.items),
                               !.pc = "update"]
               ELSE q2
       ELSE [q EXCEPT
               !.idx = q.idx + 1,
               !.totalAmount = q.totalAmount + drug.price * item.quantity,
               !.totalItems = q.totalItems + item.quantity,
               !.drug = [drug EXCEPT !.quantity = drug.quantity - item.quantity],
               !.pc = "saveDrug"]]
  /\ UNCHANGED <<drugs, sales, mounted, users, ureq, dreq>>

\* Route handler: drug.save() writes the copy's quantity; then the line item
\* is pushed and the loop goes on, or the Sale is constructed.
SaveDrug(r) ==
  LET q == req[r]
      item == q.body.items[q.idx]
      last == q.idx = Len(q.body.items)
  IN
  /\ q.pc = "saveDrug"
  /\ IF q.drug.quantity < 0
     THEN /\ req' = [req EXCEPT ![r] =
                       Respond(q, 500, [kind |-> "ValidationError"])]
          /\ UNCHANGED drugs
     ELSE /\ drugs' = IF item.quantity = 0
                      THEN drugs
                      ELSE [drugs EXCEPT ![q.drug._id].quantity = q.drug.quantity]
          /\ LET q2 == [q EXCEPT !.saleItems =
                                    Append(q.saleItems, SaleItem(q.drug, item)),
                                 !.drug = NoDrug]
             IN req' = [req EXCEPT ![r] =
                          IF last
                          THEN [q2 EXCEPT !.sale = NewSale(q2), !.pc = "count"]
                          ELSE [q2 EXCEPT !.pc = "find"]]
  /\ UNCHANGED <<sales, mounted, users, ureq, dreq>>

\* createSale: one of the findByIdAndUpdate($inc) calls of Promise.all lands.
UpdateDrug(r) ==
  LET q == req[r] IN
  /\ q.pc = "update"
  /\ \E i \in q.pending :
       LET item == q.body.items[i] IN
       /\ drugs' = IF item.drugId \in DOMAIN drugs
                   THEN [drugs EXCEPT ![item.drugId].quantity = @ - item.quantity]
                   ELSE drugs
       /\ req' = [req EXCEPT ![r] =
                    [q EXCEPT !.pending = q.pending \ {i},
                              !.pc = IF q.pending = {i} THEN "count" ELSE "update"]]
  /\ UNCHANGED <<sales, mounted, users, ureq, dreq>>

\* sale.save(): validation, then the pre-save hook counts the Sales and
\* fills in the sale number and the totals.
CountSales(r) ==
  LET q == req[r] IN
  /\ q.pc = "count"
  /\ req' = [req EXCEPT ![r] =
       IF ~SaleValid(q.sale)
       THEN Respond(q, 500, [kind |-> "SaleValidationError"])
       ELSE [q EXCEPT !.sale = PreSave(q.sale, Len(sales)), !.pc = "insert"]]
  /\ UNCHANGED <<drugs, sales, mounted, users, ureq, dreq>>

\* Mutant: the save replaces the collection's documents by the new one.
Insert_Replace(doc) == <<doc>>

\* The insert of a new Sale document.
Insert(doc) == Append(sales, doc)

\* sale.save(): the insert; the unique index rejects a duplicate sale number.
InsertSale(r) ==
  LET q == req[r] IN
  /\ q.pc = "insert"
  /\ IF DuplicateSaleNumber(q.sale)
     THEN /\ req' = [req EXCEPT ![r] =
                       Respond(q, 500, [kind |-> "DuplicateKey"])]
          /\ UNCHANGED sales
     ELSE /\ sales' = Insert(q.sale)
          /\ req' = [req EXCEPT ![r] = [q EXCEPT !.pc = "populate"]]
  /\ UNCHANGED <<drugs, mounted, users, ureq, dreq>>

\* sale.save(): the insert fails in storage.
InsertFails(r) ==
  LET q == req[r] IN
  /\ q.pc = "insert"
  /\ req' = [req EXCEPT ![r] = Respond(q, 500, [kind |-> "StorageFailure"])]
  /\ UNCHANGED <<drugs, sales, mounted, users, ureq, dreq>>

\* Sale.findById(...).populate(...), then the 201 response.
Populate(r) ==
  LET q == req[r] IN
  /\ q.pc = "populate"
  /\ req' = [req EXCEPT ![r] = Respond(q, 201, [kind |-> "SaleCompleted"])]
  /\ UNCHANGED <<drugs, sales, mounted, users, ureq, dreq>>

\* Sale.findById(...).populate(...) fails in storage: the catch block answers.
PopulateFails(r) ==
  LET q == req[r] IN
  /\ q.pc = "populate"
  /\ req' = [req EXCEPT ![r] = Respond(q, 500, [kind |-> "PopulateFailure"])]
  /\ UNCHANGED <<drugs, sales, mounted, users, ureq, dreq>>

Next ==
  \E r \in Reqs :
    \/ Receive(r)
    \/ FindDrug(r)
    \/ SaveDrug(r)
    \/ UpdateDrug(r)
    \/ CountSales(r)
    \/ InsertSale(r)
    \/ InsertFails(r)
    \/ Populate(r)
    \/ PopulateFails(r)

Spec == Init /\ [][Next]_vars

\* ------------------------------------------------------- the drug routes
\* s.trim()
Trim(s) == IF s = " B1 " THEN "B1" ELSE s

\* Mutant: the lookup skips soft-deleted Drugs.
BatchTaken_ActiveOnly(batchNo, pharmacyId) ==
  \E d \in DOMAIN drugs :
    /\ drugs[d].batchNo = batchNo /\ drugs[d].pharmacy = pharmacyId
    /\ drugs[d].isActive

\* Drug.findOne({batchNo, pharmacy})
BatchTaken(batchNo, pharmacyId) ==
  \E d \in DOMAIN drugs :
    drugs[d].batchNo = batchNo /\ drugs[d].pharmacy = pharmacyId

\* Drug.findOne({batchNo, pharmacy, _id: {$ne: id}})
BatchTakenByOther(batchNo, pharmacyId, id) ==
  \E d \in DOMAIN drugs \ {id} :
    drugs[d].batchNo = batchNo /\ drugs[d].pharmacy = pharmacyId

\* Mutant: the collection has no unique index.
DuplicateBatchKey_NoIndex(doc) == FALSE

\* The unique index on (batchNo, pharmacy) rejects the write of doc.
DuplicateBatchKey(doc) ==
  \E d \in DOMAIN drugs \ {doc._id} :
    drugs[d].batchNo = doc.batchNo /\ drugs[d].pharmacy = doc.pharmacy

\* Mutant: a date equal to the current time passes.
NotInFuture_Strict(date) == date < Now

\* new Date(expiryDate) <= new Date()
NotInFuture(date) == date <= Now

\* parseInt(minStockLevel) || 10
MinStockLevel(b) ==
  IF "minStockLevel" \in DOMAIN b /\ b.minStockLevel # 0
  THEN b.minStockLevel ELSE 10

\* new Drug({...})
NewDrug(id, u, b) ==
  [_id |-> id, name |-> Trim(b.name), batchNo |-> Trim(b.batchNo),
   category |-> Trim(b.category), quantity |-> b.quantity, price |-> b.price,
   costPrice |-> IF "costPrice" \in DOMAIN b /\ b.costPrice # 0
                 THEN b.costPrice ELSE b.price,
   minStockLevel |-> MinStockLevel(b), expiryDate |-> b.expiryDate,
   isActive |-> TRUE, pharmacy |-> PharmacyId(u)]

\* The Drug schema's validators.
DrugValid(d) ==
  /\ d.name # "" /\ d.category # "" /\ d.batchNo # ""
  /\ d.quantity >= 0 /\ d.price >= 0 /\ d.costPrice >= 0

\* updateDrug's field assignments on the loaded document.
Assign(drug, b) ==
  [drug EXCEPT !.name = Trim(b.name), !.category = Trim(b.category),
               !.batchNo = Trim(b.batchNo), !.quantity = b.quantity,
               !.price = b.price,
               !.costPrice = IF "costPrice" \in DOMAIN b THEN b.costPrice ELSE @,
               !.expiryDate = b.expiryDate,
               !.minStockLevel = IF "minStockLevel" \in DOMAIN b
                                 THEN b.minStockLevel ELSE @]

\* Mutant: the soft delete also writes the stock off.
SoftDeleted_StockWrittenOff(drug) ==
  [drug EXCEPT !.isActive = FALSE, !.quantity = 0]

\* drug.isActive = false
SoftDeleted(drug) == [drug EXCEPT !.isActive = FALSE]

\* Mutant: the save writes the whole loaded copy back.
SetModified_WholeDocument(current, loaded, copy) == copy

\* doc.save() of a loaded document: $set of the paths whose value changed.
SetModified(current, loaded, copy) ==
  [f \in DOMAIN current |-> IF copy[f] # loaded[f] THEN copy[f] ELSE current[f]]

\* drugSchema.virtual('isLowStock')
isLowStock(drug) == drug.quantity <= drug.minStockLevel

\* Drug.getLowStock(pharmacyId)
getLowStock(pharmacyId) ==
  {d \in DOMAIN drugs : /\ drugs[d].pharmacy = pharmacyId
                        /\ drugs[d].quantity <= 10
                        /\ drugs[d].isActive}

\* createDrug up to drug.save(): the duplicate lookup and the expiry check.
createDrug(r) ==
  /\ dreq[r].pc = "idle"
  /\ \E u \in DrugCallers, b \in CreateBodies :
       LET q == [IdleDReq EXCEPT !.op = "createDrug", !.user = u, !.body = b]
       IN dreq' = [dreq EXCEPT ![r] =
            IF BatchTaken(Trim(b.batchNo), PharmacyId(u))
            THEN DRespond(q, 400, [kind |-> "DuplicateBatch"])
            ELSE IF NotInFuture(b.expiryDate)
            THEN DRespond(q, 400, [kind |-> "ExpiryNotInFuture"])
            ELSE [q EXCEPT !.drug = NewDrug(NewId(r), u, b),
                           !.pc = "createSave"]]
  /\ UNCHANGED <<drugs, sales, req, mounted, users, ureq>>

\* createDrug: drug.save() and the response.
createDrug_save(r) ==
  LET q == dreq[r] IN
  /\ q.pc = "createSave"
  /\ IF ~DrugValid(q.drug)
     THEN /\ dreq' = [dreq EXCEPT ![r] =
                        DRespond(q, 400, [kind |-> "ValidationError"])]
          /\ UNCHANGED drugs
     ELSE IF DuplicateBatchKey(q.drug)
     THEN /\ dreq' = [dreq EXCEPT ![r] =
                        DRespond(q, 400, [kind |-> "DuplicateKey"])]
          /\ UNCHANGED drugs
     ELSE /\ drugs' = (q.drug._id :> q.drug) @@ drugs
          /\ dreq' = [dreq EXCEPT ![r] =
                        DRespond(q, 201, [kind |-> "DrugCreated"])]
  /\ UNCHANGED <<sales, req, mounted, users, ureq>>

\* updateDrug past the duplicate lookup: the expiry check and the assignments.
Edited(q) ==
  IF NotInFuture(q.body.expiryDate)
  THEN DRespond(q, 400, [kind |-> "ExpiryNotInFuture"])
  ELSE [q EXCEPT !.drug = Assign(q.loaded, q.body), !.pc = "updateSave"]

\* updateDrug: the lookup of the document.
updateDrug(r) ==
  /\ dreq[r].pc = "idle"
  /\ \E u \in DrugCallers, id \in UpdateTargets, b \in UpdateBodies :
       LET q == [IdleDReq EXCEPT !.op = "updateDrug", !.user = u,
                                 !.id = id, !.body = b]
           drug == FindSellable(id, PharmacyId(u))
       IN dreq' = [dreq EXCEPT ![r] =
            IF drug = NoDrug
            THEN DRespond(q, 404, [kind |-> "DrugNotFound"])
            ELSE IF Trim(b.batchNo) # drug.batchNo
            THEN [q EXCEPT !.loaded = drug, !.pc = "updateCheck"]
            ELSE Edited([q EXCEPT !.loaded = drug])]
  /\ UNCHANGED <<drugs, sales, req, mounted, users, ureq>>

\* updateDrug: the duplicate lookup for a changed batch number.
updateDrug_check(r) ==
  LET q == dreq[r] IN
  /\ q.pc = "updateCheck"
  /\ dreq' = [dreq EXCEPT ![r] =
       IF BatchTakenByOther(Trim(q.body.batchNo), PharmacyId(q.user), q.id)
       THEN DRespond(q, 400, [kind |-> "DuplicateBatch"])
       ELSE Edited(q)]
  /\ UNCHANGED <<drugs, sales, req, mounted, users, ureq>>

\* updateDrug: drug.save() and the response.
updateDrug_save(r) ==
  LET q == dreq[r] IN
  /\ q.pc = "updateSave"
  /\ IF ~DrugValid(q.drug)
     THEN /\ dreq' = [dreq EXCEPT ![r] =
                        DRespond(q, 400, [kind |-> "ValidationError"])]
          /\ UNCHANGED drugs
     ELSE IF q.drug.batchNo # q.loaded.batchNo /\ DuplicateBatchKey(q.drug)
     THEN /\ dreq' = [dreq EXCEPT ![r] =
                        DRespond(q, 400, [kind |-> "DuplicateKey"])]
          /\ UNCHANGED drugs
     ELSE /\ drugs' = [drugs EXCEPT ![q.id] = SetModified(@, q.loaded, q.drug)]
          /\ dreq' = [dreq EXCEPT ![r] =
                        DRespond(q, 200, [kind |-> "DrugUpdated"])]
  /\ UNCHANGED <<sales, req, mounted, users, ureq>>

\* deleteDrug: the lookup of the document.
deleteDrug(r) ==
  /\ dreq[r].pc = "idle"
  /\ \E u \in DrugCallers, id \in DrugTargets :
       LET q == [IdleDReq EXCEPT !.op = "deleteDrug", !.user = u, !.id = id]
           drug == FindSellable(id, PharmacyId(u))
       IN dreq' = [dreq EXCEPT ![r] =
            IF drug = NoDrug
            THEN DRespond(q, 404, [kind |-> "DrugNotFound"])
            ELSE [q EXCEPT !.loaded = drug, !.drug = SoftDeleted(drug),
                           !.pc = "deleteSave"]]
  /\ UNCHANGED <<drugs, sales, req, mounted, users, ureq>>

\* deleteDrug: drug.save() and the response.
deleteDrug_save(r) ==
  LET q == dreq[r] IN
  /\ q.pc = "deleteSave"
  /\ drugs' = [drugs EXCEPT ![q.id] = SetModified(@, q.loaded, q.drug)]
  /\ dreq' = [dreq EXCEPT ![r] = DRespond(q, 200, [kind |-> "DrugDeleted"])]
  /\ UNCHANGED <<sales, req, mounted, users, ureq>>

\* getLowStockDrugs: the query and the response.
getLowStockDrugs(r) ==
  /\ dreq[r].pc = "idle"
  /\ \E u \in DrugCallers :
       dreq' = [dreq EXCEPT ![r] =
         DRespond([IdleDReq EXCEPT !.op = "getLowStockDrugs", !.user = u,
                                   !.result = getLowStock(PharmacyId(u))],
                  200, [kind |-> "LowStock"])]
  /\ UNCHANGED <<drugs, sales, req, mounted, users, ureq>>

\* Drug.find({pharmacy, isActive: true})
ActiveDrugs(pharmacyId) ==
  {drugs[d] : d \in {e \in DOMAIN drugs : /\ drugs[e].pharmacy = pharmacyId
                                          /\ drugs[e].isActive}}

\* Drug.getExpired(pharmacyId)
getExpired(pharmacyId) ==
  {x \in ActiveDrugs(pharmacyId) : x.expiryDate < Now}

\* Drug.getNearExpiry(pharmacyId)
getNearExpiry(pharmacyId) ==
  {x \in ActiveDrugs(pharmacyId) :
     x.expiryDate >= Now /\ x.expiryDate <= Now + 30}

\* $sum: the sum of the values f gives the documents of its domain.
RECURSIVE SumOver(_)
SumOver(f) ==
  IF DOMAIN f = {} THEN 0
  ELSE LET x == CHOOSE y \in DOMAIN f : TRUE
       IN f[x] + SumOver([y \in DOMAIN f \ {x} |-> f[y]])

\* The $group stage of getDrugStatistics.
Statistics(pharmacyId) ==
  LET docs == ActiveDrugs(pharmacyId)
  IN [totalDrugs |-> Cardinality(docs),
      totalValue |-> SumOver([x \in docs |-> x.quantity * x.price]),
      lowStockCount |->
        SumOver([x \in docs |-> IF x.quantity <= x.minStockLevel THEN 1 ELSE 0]),
      expiredCount |->
        SumOver([x \in docs |-> IF x.expiryDate < Now THEN 1 ELSE 0])]

\* getDrugs: the listing (no search, category or low-stock filter).
getDrugs(r) ==
  /\ dreq[r].pc = "idle"
  /\ \E u \in DrugCallers :
       dreq' = [dreq EXCEPT ![r] =
         DRespond([IdleDReq EXCEPT !.op = "getDrugs", !.user = u,
                                   !.result = ActiveDrugs(PharmacyId(u))],
                  200, [kind |-> "Drugs"])]
  /\ UNCHANGED <<drugs, sales, req, mounted, users, ureq>>

\* getDrug: one Drug by id.
getDrug(r) ==
  /\ dreq[r].pc = "idle"
  /\ \E u \in DrugCallers, id \in DrugTargets :
       LET q == [IdleDReq EXCEPT !.op = "getDrug", !.user = u, !.id = id]
           drug == FindSellable(id, PharmacyId(u))
       IN dreq' = [dreq EXCEPT ![r] =
            IF drug = NoDrug
            THEN DRespond(q, 404, [kind |-> "DrugNotFound"])
            ELSE DRespond([q EXCEPT !.result = {drug}], 200, [kind |-> "Drug"])]
  /\ UNCHANGED <<drugs, sales, req, mounted, users, ureq>>

\* getExpiredDrugs: the query and the response.
getExpiredDrugs(r) ==
  /\ dreq[r].pc = "idle"
  /\ \E u \in DrugCallers :
       dreq' = [dreq EXCEPT ![r] =
         DRespond([IdleDReq EXCEPT !.op = "getExpiredDrugs", !.user = u,
                                   !.result = getExpired(PharmacyId(u))],
                  200, [kind |-> "Expired"])]
  /\ UNCHANGED <<drugs, sales, req, mounted, users, ureq>>

\* getNearExpiryDrugs: the query and the response.
getNearExpiryDrugs(r) ==
  /\ dreq[r].pc = "idle"
  /\ \E u \in DrugCallers :
       dreq' = [dreq EXCEPT ![r] =
         DRespond([IdleDReq EXCEPT !.op = "getNearExpiryDrugs", !.user = u,
                                   !.result = getNearExpiry(PharmacyId(u))],
                  200, [kind |-> "NearExpiry"])]
  /\ UNCHANGED <<drugs, sales, req, mounted, users, ureq>>

\* getDrugStatistics: the summary aggregation and the response.
getDrugStatistics(r) ==
  /\ dreq[r].pc = "idle"
  /\ \E u \in DrugCallers :
       dreq' = [dreq EXCEPT ![r] =
         DRespond([IdleDReq EXCEPT !.op = "getDrugStatistics", !.user = u,
                                   !.result = {Statistics(PharmacyId(u))}],
                  200, [kind |-> "Statistics"])]
  /\ UNCHANGED <<drugs, sales, req, mounted, users, ureq>>

\* The Sales in the collection.
AllSales == {sales[k] : k \in 1..Len(sales)}

\* GET /api/sales/:id -- Sale.findById(id) in the route file,
\* Sale.findOne({_id, pharmacy}) in the controller.
FindSale(id, pharmacyId) ==
  IF mounted = "controller"
  THEN {s \in AllSales : s._id = id /\ s.pharmacy = pharmacyId}
  ELSE {s \in AllSales : s._id = id}

\* GET /api/sales -- Sale.find() in the route file,
\* Sale.find({pharmacy, status: 'completed'}) in the controller.
FindSales(pharmacyId) ==
  IF mounted = "controller"
  THEN {s \in AllSales : s.pharmacy = pharmacyId /\ s.status = "completed"}
  ELSE AllSales

\* One Sale by id.
getSale(r) ==
  /\ dreq[r].pc = "idle"
  /\ \E u \in DrugCallers, id \in SaleTargets :
       LET q == [IdleDReq EXCEPT !.op = "getSale", !.user = u]
           found == FindSale(id, PharmacyId(u))
       IN dreq' = [dreq EXCEPT ![r] =
            IF found = {}
            THEN DRespond(q, 404, [kind |-> "SaleNotFound"])
            ELSE DRespond([q EXCEPT !.result = found], 200, [kind |-> "Sale"])]
  /\ UNCHANGED <<drugs, sales, req, mounted, users, ureq>>

\* The listing of Sales.
getSales(r) ==
  /\ dreq[r].pc = "idle"
  /\ \E u \in DrugCallers :
       dreq' = [dreq EXCEPT ![r] =
         DRespond([IdleDReq EXCEPT !.op = "getSales", !.user = u,
                                   !.result = FindSales(PharmacyId(u))],
                  200, [kind |-> "Sales"])]
  /\ UNCHANGED <<drugs, sales, req, mounted, users, ureq>>

\* A sale creation that starts when the one before it has been answered,
\* max of them at most.
ReceiveNext(max) ==
  /\ req[1].pc \in {"idle", "done"}
  /\ req[1].n < max
  /\ \E u \in UserIds, b \in SeqBodies :
       req' = [req EXCEPT ![1] =
                 Entered([IdleReq EXCEPT !.n = req[1].n + 1,
                                         !.user = u, !.body = b])]
  /\ UNCHANGED <<drugs, sales, mounted, users, ureq, dreq>>

ReceiveSeq == ReceiveNext(MaxSeq)

NextSeq ==
  \/ ReceiveSeq
  \/ FindDrug(1)
  \/ SaveDrug(1)
  \/ UpdateDrug(1)
  \/ CountSales(1)
  \/ InsertSale(1)
  \/ InsertFails(1)
  \/ Populate(1)
  \/ PopulateFails(1)

\* A sale creation whose basket may carry quantities that are not positive.
ReceiveSigned ==
  /\ req[1].pc = "idle"
  /\ \E u \in UserIds, b \in SignedBodies :
       req' = [req EXCEPT ![1] =
                 Entered([IdleReq EXCEPT !.n = 1, !.user = u, !.body = b])]
  /\ UNCHANGED <<drugs, sales, mounted, users, ureq, dreq>>

NextSigned ==
  \/ ReceiveSigned
  \/ FindDrug(1)
  \/ SaveDrug(1)
  \/ UpdateDrug(1)
  \/ CountSales(1)
  \/ InsertSale(1)
  \/ InsertFails(1)
  \/ Populate(1)
  \/ PopulateFails(1)

\* One sale creation over baskets with any quantities.
SpecSigned == Init /\ [][NextSigned]_vars

\* Sale creations one after the other.
SpecSeq == Init /\ [][NextSeq]_vars

NextDrugs ==
  \/ ReceiveNext(MaxSales)
  \/ FindDrug(1)
  \/ SaveDrug(1)
  \/ UpdateDrug(1)
  \/ CountSales(1)
  \/ InsertSale(1)
  \/ InsertFails(1)
  \/ Populate(1)
  \/ PopulateFails(1)
  \/ \E r \in DReqs :
       \/ createDrug(r)
       \/ createDrug_save(r)
       \/ updateDrug(r)
       \/ updateDrug_check(r)
       \/ updateDrug_save(r)
       \/ deleteDrug(r)
       \/ deleteDrug_save(r)
       \/ getLowStockDrugs(r)

\* The drug routes next to sale creations one after the other.
SpecDrugs == Init /\ [][NextDrugs]_vars

\* The reading routes next to the writing ones and to sale creations.
NextReads ==
  \/ ReceiveNext(MaxReadSales)
  \/ FindDrug(1)
  \/ SaveDrug(1)
  \/ UpdateDrug(1)
  \/ CountSales(1)
  \/ InsertSale(1)
  \/ InsertFails(1)
  \/ Populate(1)
  \/ PopulateFails(1)
  \/ \E r \in DReqs :
       \/ createDrug(r)
       \/ createDrug_save(r)
       \/ updateDrug(r)
       \/ updateDrug_check(r)
       \/ updateDrug_save(r)
       \/ deleteDrug(r)
       \/ deleteDrug_save(r)
       \/ getLowStockDrugs(r)
       \/ getDrugs(r)
       \/ getDrug(r)
       \/ getExpiredDrugs(r)
       \/ getNearExpiryDrugs(r)
       \/ getDrugStatistics(r)
       \/ getSale(r)
       \/ getSales(r)

SpecReads == Init /\ [][NextReads]_vars

\* ------------------------------------------------- auth and user routes
\* The paths of doc whose assigned value differs from the loaded one.
UserModified(loaded, doc) == {f \in UserPaths : doc[f] # loaded[f]}

\* updateOne with the $set of the modified paths.
SetUser(stored, doc, modified) ==
  [f \in DOMAIN stored |-> IF f \in modified THEN doc[f] ELSE stored[f]]

\* updateLastLogin up to its save: a new Date is never the loaded one.
updateLastLogin(q) ==
  [q EXCEPT !.pc = "save", !.doc.lastLogin = Now,
            !.modified = @ \cup {"lastLogin"}]

\* POST /api/auth/register: the lookup of the name.
registerUser(r) ==
  \E u \in UserNames, p \in Passwords :
    /\ ureq[r].pc \in {"idle", "done"}
    /\ LET q == [IdleUReq EXCEPT !.op = "registerUser", !.user = u]
       IN ureq' = [ureq EXCEPT ![r] =
            IF users[u].present THEN URespond(q, 400)
            ELSE [q EXCEPT !.pc = "create", !.doc = NewUser(p),
                           !.modified = UserPaths]]
    /\ UNCHANGED <<drugs, sales, req, mounted, dreq, users>>

\* User.create: the hook hashes the new password, the insert meets the unique
\* index, and updateLastLogin follows on the created document.
registerUser_create(r) ==
  /\ ureq[r].pc = "create"
  /\ LET q == ureq[r]
         created == [q.doc EXCEPT !.password = Hash(q.doc.password)]
     IN IF users[q.user].present
        THEN /\ ureq' = [ureq EXCEPT ![r] = URespond(q, 500)]
             /\ UNCHANGED users
        ELSE /\ users' = [users EXCEPT ![q.user] = created]
             /\ ureq' = [ureq EXCEPT ![r] =
                  updateLastLogin([q EXCEPT !.doc = created, !.modified = {}])]
  /\ UNCHANGED <<drugs, sales, req, mounted, dreq>>

\* POST /api/auth/login up to the save of updateLastLogin.
loginUser(r) ==
  \E u \in UserNames, p \in Passwords :
    /\ ureq[r].pc \in {"idle", "done"}
    /\ LET q == [IdleUReq EXCEPT !.op = "loginUser", !.user = u]
       IN ureq' = [ureq EXCEPT ![r] =
            IF users[u].present /\ matchPassword(p, users[u].password)
            THEN updateLastLogin([q EXCEPT !.doc = users[u]])
            ELSE URespond(q, 401)]
    /\ UNCHANGED <<drugs, sales, req, mounted, dreq, users>>

\* PUT /api/users/profile up to its save.
updateUserProfile(r) ==
  \E u \in UserNames, name \in PharmacyNames :
    /\ ureq[r].pc \in {"idle", "done"}
    /\ LET q == [IdleUReq EXCEPT !.op = "updateUserProfile", !.user = u]
           doc == [users[u] EXCEPT !.pharmacyName = name]
       IN ureq' = [ureq EXCEPT ![r] =
            IF users[u].present
            THEN [q EXCEPT !.pc = "save", !.doc = doc,
                           !.modified = UserModified(users[u], doc)]
            ELSE URespond(q, 404)]
    /\ UNCHANGED <<drugs, sales, req, mounted, dreq, users>>

\* PUT /api/users/preferences up to its save.
updatePreferences(r) ==
  \E u \in UserNames, alerts \in BOOLEAN :
    /\ ureq[r].pc \in {"idle", "done"}
    /\ LET q == [IdleUReq EXCEPT !.op = "updatePreferences", !.user = u]
           doc == [users[u] EXCEPT !.preferences = [lowStockAlerts |-> alerts]]
       IN ureq' = [ureq EXCEPT ![r] =
            IF users[u].present
            THEN [q EXCEPT !.pc = "save", !.doc = doc,
                           !.modified = UserModified(users[u], doc)]
            ELSE URespond(q, 404)]
    /\ UNCHANGED <<drugs, sales, req, mounted, dreq, users>>

\* PUT /api/users/password up to its save.
changePassword(r) ==
  \E u \in UserNames, currentPassword \in Passwords, newPassword \in Passwords :
    /\ ureq[r].pc \in {"idle", "done"}
    /\ LET q == [IdleUReq EXCEPT !.op = "changePassword", !.user = u]
           doc == [users[u] EXCEPT !.password = Plain(newPassword)]
       IN ureq' = [ureq EXCEPT ![r] =
            IF users[u].present /\ matchPassword(currentPassword, users[u].password)
            THEN [q EXCEPT !.pc = "save", !.doc = doc,
                           !.modified = UserModified(users[u], doc)]
            ELSE URespond(q, 400)]
    /\ UNCHANGED <<drugs, sales, req, mounted, dreq, users>>

\* The pre-save hook as the write sees the document. A modified password is
\* hashed before the hook's promise lets the save go on. Otherwise next() lets
\* the save go on and the hook, which does not return, hashes the stored hash
\* all the same: before the write collects the modified paths (rehashFirst)
\* or after it.
PreSaveUser(q, rehashFirst) ==
  IF "password" \in q.modified \/ rehashFirst
  THEN [q EXCEPT !.doc.password = Hash(@),
                 !.modified = @ \cup {"password"}]
  ELSE q

\* user.save(): the hook and the write of the modified paths. The hook has
\* no path that skips bcrypt.hash, so it hashes in every save.
saveUser(r) ==
  \E rehashFirst \in BOOLEAN :
    /\ ureq[r].pc = "save"
    /\ rehashFirst => ureq[r].doc.password.rounds < MaxHash
    /\ LET q == PreSaveUser(ureq[r], rehashFirst)
       IN /\ users' = [users EXCEPT ![q.user] = SetUser(@, q.doc, q.modified)]
          /\ ureq' = [ureq EXCEPT ![r] =
               URespond([q EXCEPT !.hashed = TRUE],
                        IF q.op = "registerUser" THEN 201 ELSE 200)]
    /\ UNCHANGED <<drugs, sales, req, mounted, dreq>>

NextUsers ==
  \E r \in UReqs :
    \/ registerUser(r)
    \/ registerUser_create(r)
    \/ loginUser(r)
    \/ updateUserProfile(r)
    \/ updatePreferences(r)
    \/ changePassword(r)
    \/ saveUser(r)

SpecUsers == Init /\ [][NextUsers]_vars

\* ------------------------------------------------------------------ claims
\* No request is in flight.
Quiescent == \A r \in Reqs : req[r].pc \in {"idle", "done"}

\* Request r is the only one received so far.
Only(r) == \A o \in Reqs \ {r} : req[o].pc = "idle"

Done(r) == req[r].pc = "done"

\* A Sale of request r is in the collection.
Persisted(r) == \E k \in 1..Len(sales) : sales[k]._id = r

QuantitiesUnchanged ==
  \A d \in DrugIds : drugs[d].quantity = InitDrugs[d].quantity

\* C1: in every reachable state every Drug's quantity is >= 0.
C1_QuantityNonNegative == \A d \in DrugIds : drugs[d].quantity >= 0

\* C2: a request one of whose lines fails validation (Drug not found, or
\* on-hand quantity below the requested quantity) persists no Sale and, when
\* no other request has run, leaves every Drug quantity as it was.
C2_FailedValidationChangesNothing ==
  \A r \in Reqs :
    (Done(r) /\ req[r].message.kind \in {"DrugNotFound", "InsufficientStock"})
      => /\ ~Persisted(r)
         /\ Only(r) => QuantitiesUnchanged

\* C3: when the Sale insert of a request fails after every line passed
\* validation (schema validation, duplicate sale number, storage failure) and
\* no other request has run, every Drug quantity equals its value before the
\* request.
C3_FailedInsertRestoresStock ==
  \A r \in Reqs :
    (/\ Done(r)
     /\ req[r].message.kind \in
          {"SaleValidationError", "DuplicateKey", "StorageFailure"}
     /\ Only(r))
      => QuantitiesUnchanged

\* Sum of the quantities the persisted Sales record for Drug d.
RECURSIVE SoldInItems(_, _)
SoldInItems(items, d) ==
  IF items = <<>> THEN 0
  ELSE (IF items[1].drug = d THEN items[1].quantity ELSE 0)
       + SoldInItems(Tail(items), d)

RECURSIVE SoldQty(_, _)
SoldQty(ss, d) ==
  IF ss = <<>> THEN 0 ELSE SoldInItems(ss[1].items, d) + SoldQty(Tail(ss), d)

\* C4: when no request is in flight, the drop of each Drug's quantity since
\* the start equals the sum of the line quantities the persisted Sales record
\* for that Drug.
C4_DecrementsMatchSales ==
  Quiescent =>
    \A d \in DrugIds :
      InitDrugs[d].quantity - drugs[d].quantity = SoldQty(sales, d)

\* Request r asked for one line of Drug d, with a payment method the schema
\* accepts, and storage did not fail under it.
SingleLineOn(r, d) ==
  /\ Len(req[r].body.items) = 1
  /\ req[r].body.items[1].drugId = d
  /\ req[r].body.paymentMethod = Undefined
  /\ req[r].message.kind # "StorageFailure"

\* C5: two requests against one Drug whose on-hand quantity equals the sum
\* of the two requested quantities both succeed, in every interleaving, and
\* leave the Drug at quantity 0.
C5_BothSucceedAndStockIsZero ==
  \A d \in DrugIds :
    (/\ Done(1) /\ Done(2)
     /\ SingleLineOn(1, d) /\ SingleLineOn(2, d)
     /\ req[1].body.items[1].quantity + req[2].body.items[1].quantity
          = InitDrugs[d].quantity)
      => /\ req[1].status = 201
         /\ req[2].status = 201
         /\ drugs[d].quantity = 0

\* Request r is in flight and the pre-save hook has given its Sale a number.
Numbered(r) == req[r].pc \in {"insert", "populate"}

\* C6: the pre-save hook never gives two concurrent requests the same
\* saleNumber.
C6_DistinctSaleNumbers ==
  \A r1, r2 \in Reqs :
    (r1 # r2 /\ Numbered(r1) /\ Numbered(r2))
      => req[r1].sale.saleNumber # req[r2].sale.saleNumber

\* C7: a request writes a Drug quantity only when every line of its basket
\* has passed the existence check and the stock check.
C7_ValidateAllThenCommit ==
  [][\A r \in Reqs :
       (req'[r] # req[r] /\ drugs' # drugs)
         => req[r].idx = Len(req[r].body.items)]_vars

\* The Drug a line refers to, as the mounted handler looks it up.
Lookup(r, id) ==
  IF mounted = "controller"
  THEN FindSellable(id, PharmacyId(req[r].user)) ELSE FindById(id)

\* C8: a single-line request for more than the Drug's on-hand quantity q
\* fails with the insufficient-stock client error, persists no Sale and
\* leaves the quantity at q; no step before the check wrote anything.
C8_InsufficientStockRejected ==
  [][\A r \in Reqs :
       /\ (req[r].pc = "idle" /\ req'[r] # req[r])
            => (drugs' = drugs /\ sales' = sales)
       /\ (/\ req[r].pc = "find"
           /\ Len(req[r].body.items) = 1
           /\ Lookup(r, req[r].body.items[1].drugId) # NoDrug
           /\ drugs[req[r].body.items[1].drugId].quantity
                < req[r].body.items[1].quantity
           /\ req'[r] # req[r])
            => /\ req'[r].pc = "done"
               /\ req'[r].status = 400
               /\ req'[r].message.kind = "InsufficientStock"
               /\ req'[r].message.available
                    = drugs[req[r].body.items[1].drugId].quantity
               /\ drugs' = drugs
               /\ sales' = sales]_vars

\* A single-line request was rejected for insufficient stock.
C8_Witness ==
  \E r \in Reqs :
    /\ Done(r)
    /\ Len(req[r].body.items) = 1
    /\ req[r].message.kind = "InsufficientStock"
    /\ req[r].message.available < req[r].message.requested

RECURSIVE LineSum(_, _)
LineSum(items, f) ==
  IF items = <<>> THEN 0 ELSE items[1][f] + LineSum(Tail(items), f)

\* C9: every persisted Sale has totalAmount = sum of its lines' totalPrice
\* and totalItems = sum of its lines' quantity.
C9_TotalsReconcile ==
  \A k \in 1..Len(sales) :
    /\ sales[k].totalAmount = LineSum(sales[k].items, "totalPrice")
    /\ sales[k].totalItems = LineSum(sales[k].items, "quantity")

\* A Sale of two lines, one of them of quantity 2, is persisted.
C9_Witness ==
  \E k \in 1..Len(sales) :
    /\ Len(sales[k].items) = 2
    /\ \E i \in 1..2 : sales[k].items[i].quantity = 2

\* C10: each line of a persisted Sale carries the Drug's price as unitPrice
\* and unitPrice * quantity as totalPrice, for the quantity the request
\* asked; the price of the request body is not used.
C10_PriceFromDrug ==
  \A k \in 1..Len(sales) :
    LET s == sales[k]
        asked == req[s._id].body.items
    IN /\ Len(s.items) = Len(asked)
       /\ \A i \in 1..Len(s.items) :
            /\ s.items[i].drug = asked[i].drugId
            /\ s.items[i].quantity = asked[i].quantity
            /\ s.items[i].unitPrice = drugs[asked[i].drugId].price
            /\ s.items[i].totalPrice = s.items[i].unitPrice * asked[i].quantity

\* A Sale is persisted whose request carried a price other than the Drug's.
C10_Witness ==
  \E k \in 1..Len(sales) :
    \E i \in 1..Len(sales[k].items) :
      req[sales[k]._id].body.items[i].price # sales[k].items[i].unitPrice

\* The Drug document a persisted line refers to.
LineDrug(it) == drugs[it.drug]

\* C11: each line of a persisted Sale whose Drug has a cost price records
\* profit = totalPrice - cost price * quantity, and the Sale records
\* totalCost = sum of the line costs and totalProfit = totalAmount - totalCost.
C11_ProfitRecorded ==
  \A k \in 1..Len(sales) :
    LET s == sales[k]
        cost == SumSeq([i \in 1..Len(s.items) |->
                          LineDrug(s.items[i]).costPrice * s.items[i].quantity])
    IN /\ \A i \in 1..Len(s.items) :
            s.items[i].profit
              = s.items[i].totalPrice
                  - LineDrug(s.items[i]).costPrice * s.items[i].quantity
       /\ "totalCost" \in DOMAIN s
       /\ s.totalCost = cost
       /\ s.totalProfit = s.totalAmount - cost

\* C14: every persisted Sale has soldBy = the caller's id and pharmacy = the
\* caller's tenant id (its pharmacy reference, or its own id without one).
C14_SaleOwnedByCaller ==
  \A k \in 1..Len(sales) :
    LET caller == req[sales[k]._id].user
    IN /\ sales[k].soldBy = Users[caller]._id
       /\ sales[k].pharmacy = PharmacyId(caller)

\* C20: a request whose basket is missing or empty is answered 400 by the
\* step that receives it, which reads and writes no collection; no Sale of
\* it is ever persisted.
C20_EmptyBasketRejected ==
  /\ [][\A r \in Reqs :
          (/\ req[r].pc = "idle"
           /\ req'[r] # req[r]
           /\ (~req'[r].body.hasItems \/ Len(req'[r].body.items) = 0))
            => /\ req'[r].pc = "done"
               /\ req'[r].status = 400
               /\ req'[r].message.kind = "EmptyBasket"
               /\ drugs' = drugs
               /\ sales' = sales]_vars
  /\ [](\A r \in Reqs :
          (req[r].pc # "idle" /\ Len(req[r].body.items) = 0) => ~Persisted(r))

\* A request without a basket and one with an empty basket were rejected.
C20_Witness ==
  /\ Done(1) /\ ~req[1].body.hasItems /\ req[1].status = 400
  /\ Done(2) /\ req[2].body.hasItems /\ Len(req[2].body.items) = 0
  /\ req[2].status = 400

\* The ordinal a four-digit sale number spells.
Ordinal(sn) == sn[3] * 1000 + sn[4] * 100 + sn[5] * 10 + sn[6]

\* C12: when sale creations do not overlap, the k-th persisted Sale has the
\* number SL followed by k (the Sales persisted before it, plus one) padded
\* to four digits; the numbers are pairwise distinct and increase in creation
\* order, whatever requests failed in between.
C12_SequentialSaleNumbers ==
  /\ \A k \in 1..Len(sales) :
       /\ Len(sales[k].saleNumber) = 6
       /\ sales[k].saleNumber[1] = "S"
       /\ sales[k].saleNumber[2] = "L"
       /\ \A i \in 3..6 : sales[k].saleNumber[i] \in 0..9
       /\ Ordinal(sales[k].saleNumber) = k
  /\ \A j, k \in 1..Len(sales) :
       j < k => /\ sales[j].saleNumber # sales[k].saleNumber
                /\ Ordinal(sales[j].saleNumber) < Ordinal(sales[k].saleNumber)

\* The first and the third request persisted a Sale, the second failed.
C12_Witness ==
  /\ Len(sales) = 2
  /\ sales[1]._id = 1
  /\ sales[2]._id = 3
  /\ req[1].pc = "done"

\* C13: the step of sale creation that reads the Drug of a basket line ends
\* the request with 404 drug-not-found, and changes no Drug, when that Drug
\* belongs to another pharmacy than the caller's or is soft-deleted.
C13_OnlyOwnActiveDrugsSold ==
  [][\A r \in Reqs :
       (/\ req[r].pc = "find"
        /\ req'[r] # req[r]
        /\ LET id == req[r].body.items[req[r].idx + 1].drugId
           IN /\ id \in DOMAIN drugs
              /\ \/ drugs[id].pharmacy # PharmacyId(req[r].user)
                 \/ ~drugs[id].isActive)
         => /\ req'[r].pc = "done"
            /\ req'[r].status = 404
            /\ req'[r].message.kind = "DrugNotFound"
            /\ drugs' = drugs]_vars

C16_SalesImmutable ==
  [][/\ Len(sales') >= Len(sales)
     /\ \A k \in 1..Len(sales) : sales'[k] = sales[k]]_vars

\* Drug d1 was sold twice, renamed and soft-deleted; the first Sale still
\* carries the name captured at sale time.
C16_Witness ==
  /\ Len(sales) = 2
  /\ sales[1].items[1].drug = "d1"
  /\ sales[2].items[1].drug = "d1"
  /\ sales[1].items[1].drugName = "d1"
  /\ drugs["d1"].name = "renamed"
  /\ ~drugs["d1"].isActive

\* C17: no two Drugs share (batchNo, pharmacy).  createDrug finding the batch
\* number in the caller's pharmacy answers 400 duplicate-batch and writes
\* nothing; its save inserts the Drug unless the pair exists by then (a
\* concurrent createDrug or updateDrug), and then answers 400 and writes
\* nothing; a failed createDrug never persists its Drug.
C17_UniqueBatchPerPharmacy ==
  /\ [](\A d, e \in DOMAIN drugs :
          d # e => ~(/\ drugs[d].batchNo = drugs[e].batchNo
                     /\ drugs[d].pharmacy = drugs[e].pharmacy))
  /\ [][\A r \in DReqs :
          /\ (/\ dreq[r].pc = "idle"
              /\ dreq'[r].op = "createDrug"
              /\ BatchTaken(Trim(dreq'[r].body.batchNo),
                            PharmacyId(dreq'[r].user)))
               => /\ dreq'[r].pc = "done"
                  /\ dreq'[r].status = 400
                  /\ dreq'[r].message.kind = "DuplicateBatch"
                  /\ drugs' = drugs
          /\ (dreq[r].pc = "createSave" /\ dreq'[r] # dreq[r])
               => IF BatchTaken(dreq[r].drug.batchNo, dreq[r].drug.pharmacy)
                  THEN dreq'[r].status = 400 /\ drugs' = drugs
                  ELSE /\ dreq'[r].status = 201
                       /\ NewId(r) \in DOMAIN drugs'
                       /\ drugs'[NewId(r)].batchNo = dreq[r].drug.batchNo
                       /\ drugs'[NewId(r)].pharmacy = dreq[r].drug.pharmacy]_vars
  /\ [](\A r \in DReqs :
          (/\ dreq[r].pc = "done" /\ dreq[r].op = "createDrug"
           /\ dreq[r].status # 201) => NewId(r) \notin DOMAIN drugs)

\* Two concurrent createDrug requests of pharmacy u2 used the batch number of
\* pharmacy u1's Drug d1: one was persisted, the other hit the unique index.
C17_Witness ==
  /\ "n1" \in DOMAIN drugs
  /\ drugs["n1"].batchNo = drugs["d1"].batchNo
  /\ drugs["n1"].pharmacy = "u2"
  /\ drugs["d1"].pharmacy = "u1"
  /\ dreq[2].pc = "done"
  /\ dreq[2].op = "createDrug"
  /\ dreq[2].message.kind = "DuplicateKey"

\* C18: createDrug with an expiry date not later than the current time
\* answers 400 at its first step and never changes the Drug collection; with
\* a later date and a batch number free in the caller's pharmacy it goes on
\* to the save, which (the batch number still free) answers 201 and adds
\* exactly one Drug, active, leaving the others as they are.
C18_ExpiryMustBeInFuture ==
  /\ [][\A r \in DReqs :
          /\ (dreq[r].pc = "idle" /\ dreq'[r].op = "createDrug")
               => IF dreq'[r].body.expiryDate <= Now
                  THEN /\ dreq'[r].pc = "done"
                       /\ dreq'[r].status = 400
                       /\ drugs' = drugs
                  ELSE ~BatchTaken(Trim(dreq'[r].body.batchNo),
                                   PharmacyId(dreq'[r].user))
                         => dreq'[r].pc = "createSave"
          /\ (/\ dreq[r].pc = "createSave"
              /\ dreq'[r] # dreq[r]
              /\ ~BatchTaken(dreq[r].drug.batchNo, dreq[r].drug.pharmacy))
               => /\ dreq'[r].status = 201
                  /\ dreq[r].body.expiryDate > Now
                  /\ NewId(r) \notin DOMAIN drugs
                  /\ DOMAIN drugs' = DOMAIN drugs \cup {NewId(r)}
                  /\ drugs'[NewId(r)].isActive
                  /\ drugs'[NewId(r)].expiryDate = dreq[r].body.expiryDate
                  /\ \A d \in DOMAIN drugs : drugs'[d] = drugs[d]]_vars
  /\ [](\A r \in DReqs :
          (/\ dreq[r].op = "createDrug"
           /\ dreq[r].body.expiryDate <= Now) => NewId(r) \notin DOMAIN drugs)

\* One createDrug with tomorrow's date was persisted, one with the current
\* time as date was rejected.
C18_Witness ==
  /\ dreq[1].pc = "done" /\ dreq[1].op = "createDrug"
  /\ dreq[1].body.expiryDate = Now + 1
  /\ dreq[1].status = 201
  /\ "n1" \in DOMAIN drugs /\ drugs["n1"].isActive
  /\ dreq[2].pc = "done" /\ dreq[2].op = "createDrug"
  /\ dreq[2].body.expiryDate = Now
  /\ dreq[2].status = 400
  /\ dreq[2].message.kind = "ExpiryNotInFuture"
  /\ "n2" \notin DOMAIN drugs

\* C19: the low-stock query answers exactly the active Drugs of the caller's
\* pharmacy whose quantity is at most their own minimum stock level, and
\* writes nothing.
C19_LowStockUsesOwnThreshold ==
  [][\A r \in DReqs :
       (dreq[r].pc = "idle" /\ dreq'[r].op = "getLowStockDrugs")
         => /\ dreq'[r].result
                 = {d \in DOMAIN drugs :
                      /\ drugs[d].pharmacy = PharmacyId(dreq'[r].user)
                      /\ drugs[d].isActive
                      /\ isLowStock(drugs[d])}
            /\ drugs' = drugs
            /\ sales' = sales]_vars

\* C23: a finished sale creation has status 201 exactly when its Sale is
\* persisted; an error status comes with no Sale of that request.
C23_SuccessIffPersisted ==
  \A r \in Reqs :
    Done(r) => /\ (req[r].status = 201 <=> Persisted(r))
               /\ (req[r].status # 201 => ~Persisted(r))

\* The Drug a basket line names, as the mounted handler looks it up.
Found(q, item) ==
  IF mounted = "controller"
  THEN FindSellable(item.drugId, PharmacyId(q.user))
  ELSE FindById(item.drugId)

\* C25: the step that examines a basket line and ends the request answers
\* for that line: 404 drug-not-found with the line's drug id when its Drug is
\* absent, otherwise 400 insufficient-stock with the Drug's name, the quantity
\* read and the quantity requested; the lines before it passed, the lines
\* after it are never examined (the request is done).
C25_FirstOffendingLineReported ==
  /\ [][\A r \in Reqs :
          (req[r].pc = "find" /\ req'[r].pc = "done")
            => LET item == req[r].body.items[req[r].idx + 1]
                   drug == Found(req[r], item)
               IN IF drug = NoDrug
                  THEN /\ req'[r].status = 404
                       /\ req'[r].message
                            = [kind |-> "DrugNotFound", drugId |-> item.drugId]
                  ELSE /\ req'[r].status = 400
                       /\ drug.quantity < item.quantity
                       /\ req'[r].message
                            = [kind |-> "InsufficientStock", drug |-> drug.name,
                               available |-> drug.quantity,
                               requested |-> item.quantity]]_vars
  /\ [][\A r \in Reqs :
          (req[r].pc = "find" /\ req'[r].pc # "done" /\ req'[r] # req[r])
            => LET item == req[r].body.items[req[r].idx + 1]
                   drug == Found(req[r], item)
               IN /\ drug # NoDrug
                  /\ drug.quantity >= item.quantity
                  /\ req'[r].idx = req[r].idx + 1]_vars

\* A two-line basket failed on its second line: d1 passed, d9 does not exist.
C25_Witness ==
  \E r \in Reqs :
    /\ Done(r)
    /\ Len(req[r].body.items) = 2
    /\ req[r].body.items[1].drugId = "d1"
    /\ req[r].body.items[2].drugId = MissingId
    /\ req[r].status = 404
    /\ req[r].message.drugId = MissingId

\* The quantities a basket asks of Drug d, all lines together.
Asked(items, d) ==
  SumSeq([i \in 1..Len(items) |->
            IF items[i].drugId = d THEN items[i].quantity ELSE 0])

\* C26: a request that ran alone, with a basket asking more of a Drug over
\* several lines than is on hand, ended with 400 insufficient-stock, every
\* quantity as before and no Sale.
C26_RepeatedDrugSummed ==
  \A r \in Reqs :
    (/\ Only(r) /\ Done(r)
     /\ \A i \in 1..Len(req[r].body.items) :
          req[r].body.items[i].drugId \in DrugIds
     /\ \E d \in DrugIds : Asked(req[r].body.items, d) > InitQty
     /\ \A i \in 1..Len(req[r].body.items) :
          req[r].body.items[i].quantity <= InitQty)
      => /\ req[r].status = 400
         /\ req[r].message.kind = "InsufficientStock"
         /\ QuantitiesUnchanged
         /\ ~Persisted(r)

\* C27: sale creation never raises a Drug's quantity, and a request with a
\* line of quantity <= 0 leaves every quantity as it was and persists no Sale.
C27_NoStockIncrease ==
  /\ \A d \in DrugIds : drugs[d].quantity <= InitDrugs[d].quantity
  /\ \A r \in Reqs :
       (/\ req[r].pc # "idle"
        /\ \E i \in 1..Len(req[r].body.items) :
             req[r].body.items[i].quantity <= 0)
         => QuantitiesUnchanged /\ ~Persisted(r)

\* The ids of the Drugs pharmacy P owns.
Mine(P) == {d \in DOMAIN drugs : drugs[d].pharmacy = P}

DrugOps ==
  {"getDrugs", "getDrug", "createDrug", "updateDrug", "deleteDrug",
   "getLowStockDrugs", "getExpiredDrugs", "getNearExpiryDrugs",
   "getDrugStatistics"}

Owner(s) == PharmacyId(s.soldBy)

\* C22: reading a Sale by id and listing Sales answer only Sales the
\* caller's pharmacy owns; the id of another pharmacy's Sale answers 404.
C22_SaleReadsTenantScoped ==
  [][\A r \in DReqs :
       (dreq[r].pc = "idle" /\ dreq'[r].op \in {"getSale", "getSales"})
         => LET P == PharmacyId(dreq'[r].user)
            IN /\ \A s \in dreq'[r].result : Owner(s) = P
               /\ (/\ dreq'[r].op = "getSale"
                   /\ \A s \in AllSales : s._id \in SaleTargets => Owner(s) # P)
                    => dreq'[r].status = 404]_vars

C28_EditedQuantityNonNegative ==
  \A d \in DOMAIN drugs : ~(drugs[d].quantity < 0)

\* C29: createDrug with a batch number a soft-deleted Drug of the caller's
\* pharmacy holds answers 400 duplicate-batch at its lookup and writes
\* nothing; so does the lookup of updateDrug when another, soft-deleted Drug
\* of the pharmacy holds the new batch number.
C29_DeletedBatchStaysReserved ==
  [][\A r \in DReqs :
       /\ (/\ dreq[r].pc = "idle"
           /\ dreq'[r].op = "createDrug"
           /\ \E d \in DOMAIN drugs :
                /\ ~drugs[d].isActive
                /\ drugs[d].pharmacy = PharmacyId(dreq'[r].user)
                /\ drugs[d].batchNo = Trim(dreq'[r].body.batchNo))
            => /\ dreq'[r].pc = "done"
               /\ dreq'[r].status = 400
               /\ dreq'[r].message.kind = "DuplicateBatch"
               /\ drugs' = drugs
       /\ (/\ dreq[r].pc = "updateCheck"
           /\ dreq'[r] # dreq[r]
           /\ \E d \in DOMAIN drugs \ {dreq[r].id} :
                /\ ~drugs[d].isActive
                /\ drugs[d].pharmacy = PharmacyId(dreq[r].user)
                /\ drugs[d].batchNo = Trim(dreq[r].body.batchNo))
            => /\ dreq'[r].pc = "done"
               /\ dreq'[r].status = 400
               /\ dreq'[r].message.kind = "DuplicateBatch"
               /\ drugs' = drugs]_vars

\* d1 was soft-deleted and a createDrug of its pharmacy with d1's batch
\* number was refused.
C29_Witness ==
  /\ ~drugs["d1"].isActive
  /\ dreq[1].pc = "done" /\ dreq[1].op = "deleteDrug" /\ dreq[1].status = 200
  /\ dreq[2].pc = "done" /\ dreq[2].op = "createDrug" /\ dreq[2].user = "u1"
  /\ Trim(dreq[2].body.batchNo) = drugs["d1"].batchNo
  /\ dreq[2].status = 400
  /\ dreq[2].message.kind = "DuplicateBatch"

\* C30: a save of a User whose password the handler did not modify
\* (updateLastLogin in register and login, updateUserProfile,
\* updatePreferences) leaves the stored password hash as it was, and the
\* pre-save hook hashes nothing in that save.
C30_UnmodifiedPasswordKept ==
  [][\A r \in UReqs :
       (ureq[r].pc = "save" /\ ureq'[r].pc = "done"
          /\ "password" \notin ureq[r].modified)
         => /\ users'[ureq[r].user].password = users[ureq[r].user].password
            /\ ~ureq'[r].hashed]_vars

TypeOK ==
  /\ mounted \in Handlers
  /\ \A r \in Reqs : req[r].pc \in
       {"idle", "find", "saveDrug", "update", "count", "insert", "populate", "done"}
  /\ \A r \in DReqs : dreq[r].pc \in
       {"idle", "createSave", "updateCheck", "updateSave", "deleteSave", "done"}
  /\ \A r \in UReqs : ureq[r].pc \in {"idle", "create", "save", "done"}
  /\ \A u \in UserNames : users[u].password.rounds \in 0..MaxHash
====
